---- MODULE Spec2Model ----
(***************************************************************************)
(* Model of coq_serapy's language-server backend, CoqLSPyInstance          *)
(* (src/src/coq_serapy/lsp_backend.py): the virtual document, its version  *)
(* counter, the cached proof context, the publishDiagnostics queue fed by  *)
(* the endpoint's reader thread, and the facade operations of the caller;   *)
(* and the construction of the session: the handshake of __init__ and      *)
(* openDoc with their blocking checks of the startup notifications.        *)
(*                                                                         *)
(* Text is a sequence of one-character strings; "\n" is the newline.       *)
(***************************************************************************)
EXTENDS Integers, Sequences, FiniteSets, TLC

\* ---------------------------------------------------------------- bounds
MaxStmts == 2      \* statements the caller keeps in the document at once
MaxVersion == 3    \* doc_version is not raised beyond this
MaxQueue == 1      \* notifications waiting in the publishDiagnostics queue

NL == "\n"

\* ------------------------------------------------------------ text helpers
\* str.strip("\n"): leading and trailing newline characters removed
RECURSIVE LStrip(_)
LStrip(s) == IF s # <<>> /\ Head(s) = NL THEN LStrip(Tail(s)) ELSE s

RECURSIVE RStrip(_)
RStrip(s) ==
    IF s # <<>> /\ s[Len(s)] = NL THEN RStrip(SubSeq(s, 1, Len(s) - 1)) ELSE s

Strip(s) == RStrip(LStrip(s))

\* "\n".join(sentences)
RECURSIVE Join(_)
Join(ss) ==
    IF ss = <<>> THEN <<>>
    ELSE IF Len(ss) = 1 THEN ss[1]
    ELSE ss[1] \o <<NL>> \o Join(Tail(ss))

\* number of newline characters of a text
RECURSIVE CountNL(_)
CountNL(s) ==
    IF s = <<>> THEN 0
    ELSE (IF Head(s) = NL THEN 1 ELSE 0) + CountNL(Tail(s))

\* len(s.split("\n"))
NumLines(s) == CountNL(s) + 1

\* len(s.split("\n")[-1]): characters after the last newline
RECURSIVE LastLineLen(_)
LastLineLen(s) ==
    IF s = <<>> \/ s[Len(s)] = NL THEN 0
    ELSE 1 + LastLineLen(SubSeq(s, 1, Len(s) - 1))

\* ----------------------------------------------------------------- inputs
\* statements the caller submits (raw, before strip)
RawStmts ==
    { <<"a", NL, "b">>,
      <<NL, "c", NL>> }

\* diagnostic message texts, as words: "PATH" stands for the text
\* "Cannot find a physical path bound to logical path", "REF" for a text
\* matching "The reference \S* was not found in the current environment\."
Messages == { <<"REF">>, <<"x">> }

\* goal responses of the server: no goals object, or a goals object
Responses == { "null", "goals" }

\* ------------------------------------------------- diagnostic interpreter
\* a test that also takes the line just after the running line count
LineBelowOrAt(line, cur_line) == line <= cur_line

\* the test of _sentence_at_line's loop: the line lies before the running
\* line count
LineBelow(line, cur_line) == line < cur_line

\* _sentence_at_line: walk the sentences from position i (1-based here),
\* adding each one's line count; idx is the zero-based index of enumerate().
\* found = FALSE is the "assert False" after the loop.
RECURSIVE SentenceAtLineFrom(_, _, _, _)
SentenceAtLineFrom(sentences, line, i, cur_line) ==
    IF i > Len(sentences)
    THEN [found |-> FALSE, idx |-> -1, sentence |-> <<>>]
    ELSE LET next_line == cur_line + NumLines(sentences[i])
         IN  IF LineBelow(line, next_line)
             THEN [found |-> TRUE, idx |-> i - 1, sentence |-> sentences[i]]
             ELSE SentenceAtLineFrom(sentences, line, i + 1, next_line)

SentenceAtLine(sentences, line) == SentenceAtLineFrom(sentences, line, 1, 0)

\* "PATH" in msg_text
RECURSIVE Contains(_, _)
Contains(s, w) ==
    IF s = <<>> THEN FALSE ELSE Head(s) = w \/ Contains(Tail(s), w)

\* the classification at the end of _handleError
Classify(msg_text) ==
    IF Contains(msg_text, "PATH") THEN "CoqExn"
    ELSE IF msg_text # <<>> /\ Head(msg_text) = "REF" THEN "CoqExn"
    ELSE "UnrecognizedError"

\* no rollback at all
TruncateNothing(sentences, sentence_num) == sentences

\* a rollback that keeps the failing statement: doc_sentences[:sentence_num+1]
TruncateAfter(sentences, sentence_num) == SubSeq(sentences, 1, sentence_num + 1)

\* doc_sentences[:sentence_num]
Truncate(sentences, sentence_num) == SubSeq(sentences, 1, sentence_num)

\* _handleError on one severe diagnostic: the sentences it leaves and the
\* exception it returns; "AssertionError" when _sentence_at_line fails.
HandleError(sentences, message) ==
    LET at == SentenceAtLine(sentences, message.line)
    IN  IF ~at.found
        THEN [sentences |-> sentences, exc |-> "AssertionError"]
        ELSE [sentences |-> IF at.idx < Len(sentences)
                            THEN Truncate(sentences, at.idx)
                            ELSE sentences,
              exc |-> Classify(message.message)]

\* exceptions = [self._handleError(message) for message in severe_errors]:
\* the errors are handled in order, each on the sentences the earlier ones
\* left; an AssertionError ends the comprehension.
RECURSIVE HandleAll(_, _, _)
HandleAll(sentences, severe_errors, exceptions) ==
    IF severe_errors = <<>>
    THEN [sentences |-> sentences, exc |-> exceptions[1]]
    ELSE LET h == HandleError(sentences, Head(severe_errors))
         IN  IF h.exc = "AssertionError" THEN h
             ELSE HandleAll(h.sentences, Tail(severe_errors),
                            Append(exceptions, h.exc))

InSeq(x, s) == \E i \in 1..Len(s) : s[i] = x

\* a stale test that lets every notification through
IsStaleNever(version, doc_version) == FALSE

\* the stale test of _checkError
IsStale(version, doc_version) == version < doc_version

\* the inner loop of _checkError over one notification's diagnostics;
\* failed is the assertion error["version"] == self.doc_version
RECURSIVE CollectEntries(_, _, _, _)
CollectEntries(diagnostics, version, doc_version, severe_errors) ==
    IF diagnostics = <<>> THEN [severe |-> severe_errors, failed |-> FALSE]
    ELSE LET message == Head(diagnostics)
         IN  IF message.severity < 2 /\ ~InSeq(message, severe_errors)
             THEN IF version # doc_version
                  THEN [severe |-> severe_errors, failed |-> TRUE]
                  ELSE CollectEntries(Tail(diagnostics), version, doc_version,
                                      Append(severe_errors, message))
             ELSE CollectEntries(Tail(diagnostics), version, doc_version,
                                 severe_errors)

\* the get_nowait() loop of _checkError: rest is what stays in the queue
RECURSIVE CollectQueue(_, _, _)
CollectQueue(queue, doc_version, severe_errors) ==
    IF queue = <<>>
    THEN [severe |-> severe_errors, rest |-> <<>>, failed |-> FALSE]
    ELSE LET error == Head(queue)
         IN  IF IsStale(error.version, doc_version)
             THEN CollectQueue(Tail(queue), doc_version, severe_errors)
             ELSE LET c == CollectEntries(error.diagnostics, error.version,
                                          doc_version, severe_errors)
                  IN  IF c.failed
                      THEN [severe |-> c.severe, rest |-> Tail(queue),
                            failed |-> TRUE]
                      ELSE CollectQueue(Tail(queue), doc_version, c.severe)

\* _checkError: exc = "none" is the normal return
CheckError(queue, doc_version, sentences) ==
    LET c == CollectQueue(queue, doc_version, <<>>)
    IN  IF c.failed
        THEN [exc |-> "AssertionError", sentences |-> sentences,
              queue |-> c.rest]
        ELSE IF Len(c.severe) > 0
        THEN LET h == HandleAll(sentences, c.severe, <<>>)
             IN  [exc |-> h.exc, sentences |-> h.sentences, queue |-> <<>>]
        ELSE [exc |-> "none", sentences |-> sentences, queue |-> <<>>]

\* parseGoalResponse
ParseGoalResponse(response) ==
    IF response = "null" THEN "None" ELSE "ProofContext"

\* ------------------------------------------------------------------ state
VARIABLES
    open_doc,        \* self.open_doc
    doc_version,     \* self.doc_version
    doc_sentences,   \* self.doc_sentences
    state_dirty,     \* self.state_dirty
    cached_context,  \* self.cached_context ("unset" until first assigned)
    diagQueue,       \* self.messageQueues['textDocument/publishDiagnostics']
    pc,              \* the caller: "idle", "call_method" (blocked in
                     \* endpoint.call_method), "closed"
    op,              \* the facade operation running or last finished
    response,        \* the proof/goals response handed over by the reader
    serverVersions,  \* server side: the versions received in didOpen and
                     \* didChange
    lastDidChange,   \* the last textDocument/didChange sent
    lastGoalsReq,    \* the last proof/goals request sent
    nSent,           \* messages sent to the server since construction
    outcome,         \* how the last finished operation ended
    closeLog,        \* the steps close() attempted, in order
    logMessageQueue, \* self.messageQueues['window/logMessage']
    logTraceQueue,   \* self.messageQueues['$/logTrace']
    checkIdx,        \* __init__: the startup checks passed so far
    sent,            \* __init__: the handshake messages sent, in order
    srvLog,          \* server side: window/logMessage notifications emitted
    srvTrace         \* server side: $/logTrace notifications emitted

vars == << open_doc, doc_version, doc_sentences, state_dirty, cached_context,
           diagQueue, pc, op, response, serverVersions, lastDidChange,
           lastGoalsReq, nSent, outcome, closeLog, logMessageQueue,
           logTraceQueue, checkIdx, sent, srvLog, srvTrace >>

docVars == << open_doc, doc_version, doc_sentences, state_dirty,
              cached_context >>
netVars == << serverVersions, lastDidChange, lastGoalsReq, nSent >>
initVars == << logMessageQueue, logTraceQueue, checkIdx, sent, srvLog,
               srvTrace >>

\* error-level entries of a notification
HasSevere(notification) ==
    \E i \in 1..Len(notification.diagnostics) :
        notification.diagnostics[i].severity < 2

\* the notifications of a queue that are older than the version and carry an
\* error-level entry
StaleSevere(queue, version) ==
    {i \in 1..Len(queue) : queue[i].version < version /\ HasSevere(queue[i])}

\* an operation that ran no _checkError returned val / raised exc
Returned(val) ==
    [kind |-> "return", val |-> val, checked |-> FALSE, skipped |-> 0]
Raised(exc) ==
    [kind |-> "raise", val |-> exc, checked |-> FALSE, skipped |-> 0]

\* an operation returned val / raised exc after a _checkError that drained
\* the queue; skipped counts the stale notifications with an error-level
\* entry that were in it
Checked(kind, val, queue, version) ==
    [kind |-> kind, val |-> val, checked |-> TRUE,
     skipped |-> Cardinality(StaleSevere(queue, version))]

\* ------------------------------------------------------ startup messages
\* A startup message text is a sequence of pieces.  Num are the pieces \d+
\* matches, AnyChar the pieces an unescaped "." matches.
Num == { "0", "27" }
AnyChar == Num \cup { ".", "," }

\* re.match of one alternative of a pattern (a sequence of sets of pieces):
\* the text starts with pieces of the sets, in order; what follows is free
MatchesAlt(message, alt) ==
    /\ Len(message) >= Len(alt)
    /\ \A i \in 1..Len(alt) : message[i] \in alt[i]

\* re.match(pattern, text), the pattern being the set of its alternatives
ReMatch(pattern, message) == \E alt \in pattern : MatchesAlt(message, alt)

\* the patterns of openDoc, in order
OpenDocPatterns ==
    << { << {"[process_queue]: Serving Request: textDocument/didOpen"} >> },
       { << {"[process_queue]: resuming document checking"} >> },
       { << {"[check]: resuming"}, {", from: 0 l: "}, Num >>,
         << {"[check]: resuming"}, {" [v: "}, Num, {"]"}, {", from: 0 l: "},
            Num >> },
       { << {"[check]: done ["}, Num, {"."}, Num,
            {"]: document fully checked "} >> },
       { << {"[cache]: "}, {"hashing: "}, Num, AnyChar, Num, {" "} >>,
         << {" parsing: "}, Num, AnyChar, Num, {" "} >>,
         << {" exec: "}, Num, AnyChar, Num >> },
       { << {"[cache]: "} >> } >>

\* The blocking checks of __init__ in program order: three window/logMessage
\* and four $/logTrace checks of verify_init_messages, the check after
\* initialized(), the six pattern checks of openDoc.
StartupChecks ==
    << [queue |-> "window/logMessage", how |-> "checkMessage",
        text |-> <<"Initializing server">>],
       [queue |-> "window/logMessage", how |-> "checkMessage",
        text |-> <<"Server initialized">>],
       [queue |-> "window/logMessage", how |-> "checkInMessage",
        text |-> "Configuration loaded"],
       [queue |-> "$/logTrace", how |-> "checkMessage",
        text |-> <<"[init]: custom client options:">>],
       [queue |-> "$/logTrace", how |-> "checkMessage",
        text |-> <<"[init]: [init]: {}">>],
       [queue |-> "$/logTrace", how |-> "checkMessage",
        text |-> <<"[client_version]: any">>],
       [queue |-> "$/logTrace", how |-> "checkMessage",
        text |-> <<"[workspace]: initialized">>],
       [queue |-> "$/logTrace", how |-> "checkMessage",
        text |-> <<"[process_queue]: Serving Request: initialized">>] >>
    \o [i \in 1..Len(OpenDocPatterns) |->
           [queue |-> "$/logTrace", how |-> "checkMessagePattern",
            text |-> OpenDocPatterns[i]]]

\* checks done when verify_init_messages returns, when the check after
\* initialized() passed, and when openDoc's loop ends
VerifiedChecks == 7
AcknowledgedChecks == 8
AllChecks == 14

\* the assertion of checkMessage / checkInMessage / checkMessagePattern
CheckPasses(check, message) ==
    IF check.how = "checkMessage" THEN message = check.text
    ELSE IF check.how = "checkInMessage" THEN Contains(message, check.text)
    ELSE ReMatch(check.text, message)

\* what the server this client was written for emits at startup: its
\* window/logMessage notifications and its $/logTrace notifications, each in
\* order (the tail of a text that is only searched or matched is the
\* server's own)
ExpectedLog ==
    << <<"Initializing server">>,
       <<"Server initialized">>,
       <<"[config]: ", "Configuration loaded", " from client">> >>

ExpectedTrace ==
    << <<"[init]: custom client options:">>,
       <<"[init]: [init]: {}">>,
       <<"[client_version]: any">>,
       <<"[workspace]: initialized">>,
       <<"[process_queue]: Serving Request: initialized">>,
       <<"[process_queue]: Serving Request: textDocument/didOpen">>,
       <<"[process_queue]: resuming document checking">>,
       <<"[check]: resuming", " [v: ", "0", "]", ", from: 0 l: ", "0">>,
       <<"[check]: done [", "0", ".", "27", "]: document fully checked ",
         "[0-0]">>,
       <<"[cache]: ", "hashing: ", "0", ".", "0", " ", "| parsing: 0.0">>,
       <<"[cache]: ", "stats">> >>

\* the handshake messages of __init__, in the order it sends them
HandshakeSends == <<"initialize", "initialized", "didOpen">>

\* the startup part of the state once __init__ has returned: every check
\* passed on the messages above, nothing left in the two queues
Constructed ==
    /\ logMessageQueue = <<>>
    /\ logTraceQueue = <<>>
    /\ checkIdx = AllChecks
    /\ sent = HandshakeSends
    /\ srvLog = ExpectedLog
    /\ srvTrace = ExpectedTrace

\* the state __init__ leaves: handshake done, "local1.v" opened empty with
\* version 1, the diagnostics queue drained by openDoc's _checkError
Init ==
    /\ open_doc = "local1.v"
    /\ doc_version = 1
    /\ doc_sentences = <<>>
    /\ state_dirty = TRUE
    /\ cached_context = "unset"
    /\ diagQueue = <<>>
    /\ pc = "idle"
    /\ op = "__init__"
    /\ response = "pending"
    /\ serverVersions = {1}
    /\ lastDidChange = [uri |-> "local1.v", version |-> 1, text |-> <<>>,
                        method |-> "didOpen"]
    /\ lastGoalsReq = [uri |-> "", line |-> -1, character |-> -1]
    /\ nSent = 0
    /\ outcome = Returned("None")
    /\ closeLog = <<>>
    /\ Constructed

\* ------------------------------------------------------- facade operations
\* a synchronization that sends the document under the version it has
SynchronizeSameVersion(sentences) ==
    /\ doc_version < MaxVersion
    /\ doc_version' = doc_version
    /\ lastDidChange' = [uri |-> open_doc, version |-> doc_version,
                         text |-> Join(sentences), method |-> "didChange"]
    /\ serverVersions' = serverVersions \cup {doc_version}
    /\ lastGoalsReq' = [uri |-> open_doc,
                        line |-> NumLines(Join(sentences)) - 1,
                        character |-> LastLineLen(Join(sentences))]
    /\ nSent' = nSent + 2
    /\ response' = "pending"
    /\ pc' = "call_method"

\* a synchronization that sends the last statement only
SynchronizeLastOnly(sentences) ==
    LET doc == IF sentences = <<>> THEN <<>> ELSE sentences[Len(sentences)]
        line == NumLines(doc) - 1
        character == IF Len(doc) > 0 THEN LastLineLen(doc) ELSE 0
    IN  /\ doc_version < MaxVersion
        /\ doc_version' = doc_version + 1
        /\ lastDidChange' = [uri |-> open_doc, version |-> doc_version + 1,
                             text |-> doc, method |-> "didChange"]
        /\ serverVersions' = serverVersions \cup {doc_version + 1}
        /\ lastGoalsReq' = [uri |-> open_doc, line |-> line,
                            character |-> character]
        /\ nSent' = nSent + 2
        /\ response' = "pending"
        /\ pc' = "call_method"

\* a synchronization that takes every statement for one line
SynchronizeLinePerStatement(sentences) ==
    LET doc == Join(sentences)
        line == IF sentences = <<>> THEN 0 ELSE Len(sentences) - 1
        character == IF Len(doc) > 0 THEN LastLineLen(doc) ELSE 0
    IN  /\ doc_version < MaxVersion
        /\ doc_version' = doc_version + 1
        /\ lastDidChange' = [uri |-> open_doc, version |-> doc_version + 1,
                             text |-> doc, method |-> "didChange"]
        /\ serverVersions' = serverVersions \cup {doc_version + 1}
        /\ lastGoalsReq' = [uri |-> open_doc, line |-> line,
                            character |-> character]
        /\ nSent' = nSent + 2
        /\ response' = "pending"
        /\ pc' = "call_method"

\* The dirty path of getProofContext up to the blocking call_method: join,
\* bump the version, send didChange, send the proof/goals request.
Synchronize(sentences) ==
    LET doc == Join(sentences)
        line == NumLines(doc) - 1
        character == IF Len(doc) > 0 THEN LastLineLen(doc) ELSE 0
    IN  /\ doc_version < MaxVersion
        /\ doc_version' = doc_version + 1
        /\ lastDidChange' = [uri |-> open_doc, version |-> doc_version + 1,
                             text |-> doc, method |-> "didChange"]
        /\ serverVersions' = serverVersions \cup {doc_version + 1}
        /\ lastGoalsReq' = [uri |-> open_doc, line |-> line,
                            character |-> character]
        /\ nSent' = nSent + 2
        /\ response' = "pending"
        /\ pc' = "call_method"

\* addStmt_noupdate
AddStmtNoUpdate ==
    \E stmt \in RawStmts :
        /\ pc = "idle"
        /\ Len(doc_sentences) < MaxStmts
        /\ doc_sentences' = Append(doc_sentences, Strip(stmt))
        /\ state_dirty' = TRUE
        /\ op' = "addStmt_noupdate"
        /\ outcome' = Returned("None")
        /\ UNCHANGED << open_doc, doc_version, cached_context, diagQueue, pc,
                        response, netVars, closeLog, initVars >>

\* addStmt: addStmt_noupdate, then getProofContext (dirty by then) up to
\* its call_method
AddStmt ==
    \E stmt \in RawStmts :
        /\ pc = "idle"
        /\ Len(doc_sentences) < MaxStmts
        /\ doc_sentences' = Append(doc_sentences, Strip(stmt))
        /\ state_dirty' = TRUE
        /\ Synchronize(doc_sentences')
        /\ op' = "addStmt"
        /\ UNCHANGED << open_doc, cached_context, diagQueue, outcome,
                        closeLog, initVars >>

\* a cancelLastStmt that forgets to mark the cache dirty
CancelLastStmtKeepsClean ==
        /\ pc = "idle"
        /\ op' = "cancelLastStmt"
        /\ IF doc_sentences = <<>>
           THEN /\ outcome' = Raised("IndexError")
                /\ UNCHANGED << doc_sentences >>
           ELSE /\ doc_sentences' =
                       SubSeq(doc_sentences, 1, Len(doc_sentences) - 1)
                /\ outcome' = Returned("None")
        /\ UNCHANGED << open_doc, doc_version, state_dirty, cached_context,
                        diagQueue, pc, response, netVars, closeLog, initVars >>

\* a cancelLastStmt that marks the cache dirty before it pops
CancelLastStmtDirtyFirst ==
        /\ pc = "idle"
        /\ op' = "cancelLastStmt"
        /\ state_dirty' = TRUE
        /\ IF doc_sentences = <<>>
           THEN /\ outcome' = Raised("IndexError")
                /\ UNCHANGED << doc_sentences >>
           ELSE /\ doc_sentences' =
                       SubSeq(doc_sentences, 1, Len(doc_sentences) - 1)
                /\ outcome' = Returned("None")
        /\ UNCHANGED << open_doc, doc_version, cached_context, diagQueue, pc,
                        response, netVars, closeLog, initVars >>

\* cancelLastStmt and cancelLastStmt_noupdate: list.pop() raises IndexError
\* on an empty list, before state_dirty is assigned
CancelLastStmt ==
        /\ pc = "idle"
        /\ op' = "cancelLastStmt"
        /\ IF doc_sentences = <<>>
           THEN /\ outcome' = Raised("IndexError")
                /\ UNCHANGED << doc_sentences, state_dirty >>
           ELSE /\ doc_sentences' =
                       SubSeq(doc_sentences, 1, Len(doc_sentences) - 1)
                /\ state_dirty' = TRUE
                /\ outcome' = Returned("None")
        /\ UNCHANGED << open_doc, doc_version, cached_context, diagQueue, pc,
                        response, netVars, closeLog, initVars >>

\* what the operation hands back for a proof context
ReturnValue(name, context) ==
    IF name = "addStmt" THEN "None"
    ELSE IF name = "isInProof"
    THEN (IF context # "None" THEN "True" ELSE "False")
    ELSE context

\* a getProofContext / isInProof that ignores the clean cache and
\* synchronizes again
GetProofContextNoCache ==
    \E name \in {"getProofContext", "isInProof"} :
        /\ pc = "idle"
        /\ ~state_dirty
        /\ Synchronize(doc_sentences)
        /\ op' = name
        /\ UNCHANGED << open_doc, doc_sentences, state_dirty, cached_context,
                        diagQueue, outcome, closeLog, initVars >>

\* getProofContext / isInProof with a clean cache: the early return
GetProofContextCached ==
    \E name \in {"getProofContext", "isInProof"} :
        /\ pc = "idle"
        /\ ~state_dirty
        /\ op' = name
        /\ outcome' = Returned(ReturnValue(name, cached_context))
        /\ UNCHANGED << docVars, diagQueue, pc, response, netVars, closeLog,
                        initVars >>

\* getProofContext / isInProof with a dirty cache, up to call_method
GetProofContextSync ==
    \E name \in {"getProofContext", "isInProof"} :
        /\ pc = "idle"
        /\ state_dirty
        /\ Synchronize(doc_sentences)
        /\ op' = name
        /\ UNCHANGED << open_doc, doc_sentences, state_dirty, cached_context,
                        diagQueue, outcome, closeLog, initVars >>

\* call_method returns the response: parse it, _checkError, then the cache
\* assignments, unless _checkError raised
CallMethodReturns ==
    /\ pc = "call_method"
    /\ response \in Responses
    /\ LET parsed_response == ParseGoalResponse(response)
           chk == CheckError(diagQueue, doc_version, doc_sentences)
       IN  /\ diagQueue' = chk.queue
           /\ doc_sentences' = chk.sentences
           /\ IF chk.exc = "none"
              THEN /\ cached_context' = parsed_response
                   /\ state_dirty' = FALSE
                   /\ outcome' = Checked("return",
                                          ReturnValue(op, parsed_response),
                                          diagQueue, doc_version)
              ELSE /\ outcome' = Checked("raise", chk.exc, diagQueue,
                                          doc_version)
                   /\ UNCHANGED << cached_context, state_dirty >>
    /\ pc' = "idle"
    /\ response' = "pending"
    /\ UNCHANGED << open_doc, doc_version, op, netVars, closeLog, initVars >>

\* call_method raises instead (timeout, error response, closed transport)
CallMethodFails ==
    /\ pc = "call_method"
    /\ response = "pending"
    /\ pc' = "idle"
    /\ outcome' = Raised("TransportError")
    /\ UNCHANGED << docVars, diagQueue, op, response, netVars, closeLog,
                    initVars >>

\* a resetCommandState that starts the versions again at 1, as openDoc does
ResetCommandStateRestartsVersion ==
    /\ pc = "idle"
    /\ doc_version < MaxVersion
    /\ doc_version' = 1
    /\ doc_sentences' = <<>>
    /\ state_dirty' = TRUE
    /\ op' = "resetCommandState"
    /\ outcome' = Returned("None")
    /\ UNCHANGED << open_doc, cached_context, diagQueue, pc, response,
                    netVars, closeLog, initVars >>

\* a resetCommandState that opens the document again
ResetCommandStateReopens ==
    /\ pc = "idle"
    /\ doc_version < MaxVersion
    /\ doc_version' = doc_version + 1
    /\ doc_sentences' = <<>>
    /\ state_dirty' = TRUE
    /\ op' = "resetCommandState"
    /\ outcome' = Returned("None")
    /\ lastDidChange' = [uri |-> open_doc, version |-> doc_version + 1,
                         text |-> <<>>, method |-> "didOpen"]
    /\ serverVersions' = serverVersions \cup {doc_version + 1}
    /\ nSent' = nSent + 1
    /\ UNCHANGED << open_doc, cached_context, diagQueue, pc, response,
                    lastGoalsReq, closeLog, initVars >>

\* resetCommandState
ResetCommandState ==
    /\ pc = "idle"
    /\ doc_version < MaxVersion
    /\ doc_version' = doc_version + 1
    /\ doc_sentences' = <<>>
    /\ state_dirty' = TRUE
    /\ op' = "resetCommandState"
    /\ outcome' = Returned("None")
    /\ UNCHANGED << open_doc, cached_context, diagQueue, pc, response,
                    netVars, closeLog, initVars >>

\* close: shutdown(), exit(), terminate() in sequence; an exception of one
\* step leaves the method
Close ==
    \E shutdown_ok \in BOOLEAN, exit_ok \in BOOLEAN :
        /\ pc = "idle"
        /\ pc' = "closed"
        /\ op' = "close"
        /\ IF ~shutdown_ok
           THEN /\ closeLog' = <<"shutdown">>
                /\ outcome' = Raised("TransportError")
           ELSE IF ~exit_ok
           THEN /\ closeLog' = <<"shutdown", "exit">>
                /\ outcome' = Raised("TransportError")
           ELSE /\ closeLog' = <<"shutdown", "exit", "terminate">>
                /\ outcome' = Returned("None")
        /\ UNCHANGED << docVars, diagQueue, response, netVars, initVars >>

\* ------------------------------------------------ server and reader thread
\* The error-level entries (severity 1) the server may report on a text: any
\* line of the text, any message.
SevereEntries(text) ==
    [severity : {1}, line : 0..(NumLines(text) - 1), message : Messages]

\* a warning (severity 2; the code reads nothing but the severity of it)
WarningEntry == [severity |-> 2, line |-> 0, message |-> <<"x">>]

\* the diagnostics of one notification: none, or one entry
ShortLists(text) ==
    {<<>>, <<WarningEntry>>} \cup {<<e>> : e \in SevereEntries(text)}

\* the diagnostics the server of the running session reports in one
\* notification: none (the text checks), or one error-level entry about an
\* unknown reference at some line of the text it received last
ReportedLists(text) ==
    {<<>>} \cup {<<e>> : e \in {x \in SevereEntries(text) :
                                    x.message = <<"REF">>}}

\* ... or two error-level entries
LongLists(text) ==
    ShortLists(text)
        \cup {<<e, f>> : e \in SevereEntries(text), f \in SevereEntries(text)}

\* the reader thread gets a publishDiagnostics notification and puts it on
\* its queue (the notify callback queue.Queue.put)
ReaderPutsDiagnostics ==
    \E v \in serverVersions :
        /\ pc # "closed"
        /\ Len(diagQueue) < MaxQueue
        /\ \E diagnostics \in ReportedLists(lastDidChange.text) :
               diagQueue' = Append(diagQueue,
                                   [version |-> v, diagnostics |-> diagnostics])
        /\ UNCHANGED << docVars, pc, op, response, netVars, outcome,
                        closeLog, initVars >>

\* the reader thread gets the response of the pending proof/goals request
ReaderGetsResponse ==
    \E r \in Responses :
        /\ pc = "call_method"
        /\ response = "pending"
        /\ response' = r
        /\ UNCHANGED << docVars, diagQueue, pc, op, netVars, outcome,
                        closeLog, initVars >>

\* ------------------------------------------------------------ construction
\* __init__ up to the blocking initialize request: the process is started,
\* the three queues are created, the reader thread runs
Initialize ==
    /\ pc = "start"
    /\ pc' = "initialize"
    /\ sent' = Append(sent, "initialize")
    /\ UNCHANGED << docVars, diagQueue, op, response, netVars, outcome,
                    closeLog, logMessageQueue, logTraceQueue, checkIdx,
                    srvLog, srvTrace >>

\* the response of initialize arrives: on to verify_init_messages
InitializeReturns ==
    /\ pc = "initialize"
    /\ pc' = "verify_init_messages"
    /\ UNCHANGED << docVars, diagQueue, op, response, netVars, outcome,
                    closeLog, initVars >>

\* the endpoint gives up waiting for the response of initialize
InitializeFails ==
    /\ pc = "initialize"
    /\ pc' = "failed"
    /\ outcome' = Raised("TransportError")
    /\ UNCHANGED << docVars, diagQueue, op, response, netVars, closeLog,
                    initVars >>

\* where __init__ goes on after a check that passed
AfterCheck(passed) ==
    IF passed = VerifiedChecks THEN "initialized"
    ELSE IF passed = AcknowledgedChecks THEN "openDoc"
    ELSE IF passed = AllChecks THEN "_checkError"
    ELSE IF passed < VerifiedChecks THEN "verify_init_messages"
    ELSE "openDoc_check"

\* a check that takes the next message whatever it says
CheckStartupMessageLenient ==
    /\ pc \in {"verify_init_messages", "acknowledge", "openDoc_check"}
    /\ LET check == StartupChecks[checkIdx + 1]
           q == IF check.queue = "window/logMessage" THEN logMessageQueue
                ELSE logTraceQueue
       IN  /\ q # <<>>
           /\ IF check.queue = "window/logMessage"
              THEN /\ logMessageQueue' = Tail(logMessageQueue)
                   /\ UNCHANGED logTraceQueue
              ELSE /\ logTraceQueue' = Tail(logTraceQueue)
                   /\ UNCHANGED logMessageQueue
           /\ checkIdx' = checkIdx + 1
           /\ pc' = AfterCheck(checkIdx + 1)
           /\ UNCHANGED outcome
    /\ UNCHANGED << docVars, diagQueue, op, response, netVars, closeLog,
                    sent, srvLog, srvTrace >>

\* checkMessage / checkInMessage / checkMessagePattern: Queue.get() waits
\* until the queue of the check holds a message, then the assertion
CheckStartupMessage ==
    /\ pc \in {"verify_init_messages", "acknowledge", "openDoc_check"}
    /\ LET check == StartupChecks[checkIdx + 1]
           q == IF check.queue = "window/logMessage" THEN logMessageQueue
                ELSE logTraceQueue
       IN  /\ q # <<>>
           /\ IF check.queue = "window/logMessage"
              THEN /\ logMessageQueue' = Tail(logMessageQueue)
                   /\ UNCHANGED logTraceQueue
              ELSE /\ logTraceQueue' = Tail(logTraceQueue)
                   /\ UNCHANGED logMessageQueue
           /\ IF CheckPasses(check, Head(q))
              THEN /\ checkIdx' = checkIdx + 1
                   /\ pc' = AfterCheck(checkIdx + 1)
                   /\ UNCHANGED outcome
              ELSE /\ pc' = "failed"
                   /\ outcome' = Raised("AssertionError")
                   /\ UNCHANGED checkIdx
    /\ UNCHANGED << docVars, diagQueue, op, response, netVars, closeLog,
                    sent, srvLog, srvTrace >>

\* lsp_client.initialized()
SendInitialized ==
    /\ pc = "initialized"
    /\ pc' = "acknowledge"
    /\ sent' = Append(sent, "initialized")
    /\ UNCHANGED << docVars, diagQueue, op, response, netVars, outcome,
                    closeLog, logMessageQueue, logTraceQueue, checkIdx,
                    srvLog, srvTrace >>

\* the assignments of __init__ after the handshake and openDoc("local1.v")
\* up to its first check: the document is opened empty with version 1
OpenDoc ==
    /\ pc = "openDoc"
    /\ pc' = "openDoc_check"
    /\ state_dirty' = TRUE
    /\ doc_sentences' = <<>>
    /\ open_doc' = "local1.v"
    /\ doc_version' = 1
    /\ lastDidChange' = [uri |-> "local1.v", version |-> 1, text |-> <<>>,
                         method |-> "didOpen"]
    /\ serverVersions' = serverVersions \cup {1}
    /\ sent' = Append(sent, "didOpen")
    /\ UNCHANGED << cached_context, diagQueue, op, response, lastGoalsReq,
                    nSent, outcome, closeLog, logMessageQueue, logTraceQueue,
                    checkIdx, srvLog, srvTrace >>

\* the _checkError that ends openDoc; __init__ returns unless it raises
OpenDocCheckError ==
    /\ pc = "_checkError"
    /\ LET chk == CheckError(diagQueue, doc_version, doc_sentences)
       IN  /\ diagQueue' = chk.queue
           /\ doc_sentences' = chk.sentences
           /\ IF chk.exc = "none"
              THEN /\ pc' = "idle"
                   /\ outcome' = Returned("None")
              ELSE /\ pc' = "failed"
                   /\ outcome' = Raised(chk.exc)
    /\ UNCHANGED << open_doc, doc_version, state_dirty, cached_context, op,
                    response, netVars, closeLog, initVars >>

\* a text no check accepts
OtherText == <<"other">>

\* what a server may say where `expected` is due: that text, that text with
\* something after it, or something else
ServerTexts(expected) == { expected, Append(expected, "!"), OtherText }

\* the handshake message a $/logTrace notification answers, by its place in
\* the server's sequence
TraceTrigger(i) ==
    IF i <= 4 THEN "initialize"
    ELSE IF i = 5 THEN "initialized"
    ELSE "didOpen"

\* a reader that keeps one queue for both kinds of startup notification
ReaderPutsLogTraceShared ==
    /\ Len(srvTrace) < Len(ExpectedTrace)
    /\ InSeq(TraceTrigger(Len(srvTrace) + 1), sent)
    /\ \E text \in ServerTexts(ExpectedTrace[Len(srvTrace) + 1]) :
           /\ srvTrace' = Append(srvTrace, text)
           /\ logMessageQueue' = Append(logMessageQueue, text)
    /\ UNCHANGED << docVars, diagQueue, pc, op, response, netVars, outcome,
                    closeLog, logTraceQueue, checkIdx, sent, srvLog >>

\* the server emits its next window/logMessage notification and the reader
\* thread puts it on the queue of its kind
ReaderPutsLogMessage ==
    /\ Len(srvLog) < Len(ExpectedLog)
    /\ InSeq("initialize", sent)
    /\ \E text \in ServerTexts(ExpectedLog[Len(srvLog) + 1]) :
           /\ srvLog' = Append(srvLog, text)
           /\ logMessageQueue' = Append(logMessageQueue, text)
    /\ UNCHANGED << docVars, diagQueue, pc, op, response, netVars, outcome,
                    closeLog, logTraceQueue, checkIdx, sent, srvTrace >>

\* the same for its next $/logTrace notification
ReaderPutsLogTrace ==
    /\ Len(srvTrace) < Len(ExpectedTrace)
    /\ InSeq(TraceTrigger(Len(srvTrace) + 1), sent)
    /\ \E text \in ServerTexts(ExpectedTrace[Len(srvTrace) + 1]) :
           /\ srvTrace' = Append(srvTrace, text)
           /\ logTraceQueue' = Append(logTraceQueue, text)
    /\ UNCHANGED << docVars, diagQueue, pc, op, response, netVars, outcome,
                    closeLog, logMessageQueue, checkIdx, sent, srvLog >>

\* a publishDiagnostics notification that arrives before any document is
\* open (version 0: older than every document version)
ReaderPutsStartupDiagnostics ==
    /\ InSeq("initialize", sent)
    /\ ~InSeq("didOpen", sent)
    /\ Len(diagQueue) < MaxQueue
    /\ \E diagnostics \in ShortLists(<<>>) :
           diagQueue' = Append(diagQueue,
                               [version |-> 0, diagnostics |-> diagnostics])
    /\ UNCHANGED << docVars, pc, op, response, netVars, outcome, closeLog,
                    initVars >>

\* the state in which __init__ is entered: no attribute is assigned yet
InitConstruct ==
    /\ open_doc = "unset"
    /\ doc_version = "unset"
    /\ doc_sentences = "unset"
    /\ state_dirty = "unset"
    /\ cached_context = "unset"
    /\ diagQueue = <<>>
    /\ pc = "start"
    /\ op = "__init__"
    /\ response = "pending"
    /\ serverVersions = {}
    /\ lastDidChange = [uri |-> "", version |-> 0, text |-> <<>>,
                        method |-> "none"]
    /\ lastGoalsReq = [uri |-> "", line |-> -1, character |-> -1]
    /\ nSent = 0
    /\ outcome = Returned("None")
    /\ closeLog = <<>>
    /\ logMessageQueue = <<>>
    /\ logTraceQueue = <<>>
    /\ checkIdx = 0
    /\ sent = <<>>
    /\ srvLog = <<>>
    /\ srvTrace = <<>>

\* the caller's steps of the construction
ConstructStep ==
    \/ Initialize
    \/ InitializeReturns
    \/ InitializeFails
    \/ CheckStartupMessage
    \/ SendInitialized
    \/ OpenDoc
    \/ OpenDocCheckError

\* the construction, the reader thread beside it, and the first use of the
\* session it yields
NextInit ==
    \/ ConstructStep
    \/ ReaderPutsLogMessage
    \/ ReaderPutsLogTrace
    \/ ReaderPutsStartupDiagnostics
    \/ ReaderPutsDiagnostics
    \/ AddStmtNoUpdate

SpecInit == InitConstruct /\ [][NextInit]_vars

\* The caller's thread keeps running: a step of __init__ that can be taken
\* is taken.  Nothing obliges the server to emit a notification.
SpecInitFair == SpecInit /\ WF_vars(ConstructStep)

\* the session in use
Next ==
    \/ AddStmtNoUpdate
    \/ AddStmt
    \/ CancelLastStmt
    \/ GetProofContextCached
    \/ GetProofContextSync
    \/ CallMethodReturns
    \/ CallMethodFails
    \/ ResetCommandState
    \/ ReaderPutsDiagnostics
    \/ ReaderGetsResponse

Spec == Init /\ [][Next]_vars

\* the session in use and its shutdown
NextClose == Next \/ Close

SpecClose == Init /\ [][NextClose]_vars

\* ------------------------------------------- the diagnostic check in detail
\* The caller is blocked in the call_method of a getProofContext/addStmt
\* that sent the current document under the current version, and the queue
\* holds any notifications the reader put meanwhile: stale ones (of the
\* version before) and current ones, each with up to two entries.
QueuedNotifications(text, version) ==
    [version : {version - 1, version}, diagnostics : LongLists(text)]

RECURSIVE SeqsUpTo(_, _)
SeqsUpTo(S, n) ==
    IF n = 0 THEN {<<>>}
    ELSE LET shorter == SeqsUpTo(S, n - 1)
         IN  shorter \cup {Append(q, x) : q \in shorter, x \in S}

Documents == SeqsUpTo({Strip(stmt) : stmt \in RawStmts}, MaxStmts)

InitCheck ==
    /\ open_doc = "local1.v"
    /\ doc_version = MaxVersion
    /\ doc_sentences \in Documents
    /\ state_dirty = TRUE
    /\ cached_context = "ProofContext"
    /\ diagQueue \in SeqsUpTo(QueuedNotifications(Join(doc_sentences),
                                                  doc_version), MaxQueue)
    /\ pc = "call_method"
    /\ op \in {"addStmt", "getProofContext"}
    /\ response = "pending"
    /\ serverVersions = 1..doc_version
    /\ lastDidChange = [uri |-> "local1.v", version |-> doc_version,
                        text |-> Join(doc_sentences), method |-> "didChange"]
    /\ lastGoalsReq =
           [uri |-> "local1.v", line |-> NumLines(Join(doc_sentences)) - 1,
            character |-> LastLineLen(Join(doc_sentences))]
    /\ nSent = 2 * (doc_version - 1)
    /\ outcome = Returned("None")
    /\ closeLog = <<>>
    /\ Constructed

NextCheck ==
    \/ ReaderGetsResponse
    \/ CallMethodReturns
    \/ CallMethodFails

SpecCheck == InitCheck /\ [][NextCheck]_vars

\* ================================================================ claims
\* ------------------------------------------------ vocabulary of the claims
\* the step in which call_method hands back the response and _checkError
\* runs
CheckStep == pc = "call_method" /\ pc' = "idle" /\ outcome'.checked

\* the classified errors derived from a diagnostic
CoqExceptions == {"CoqExn", "UnrecognizedError"}

IsPrefix(s, t) == Len(s) <= Len(t) /\ s = SubSeq(t, 1, Len(s))

\* the document, character by character: position p (from 0) is where line
\* `line` of the text starts
RECURSIVE LineStartOffset(_, _)
LineStartOffset(text, line) ==
    IF line = 0 THEN 0
    ELSE LET prev == LineStartOffset(text, line - 1)
         IN  CHOOSE p \in (prev + 1)..Len(text) :
                /\ text[p] = NL
                /\ \A q \in (prev + 1)..(p - 1) : text[q] # NL

\* position (from 0) in the joined document of the first character of
\* statement k (from 1)
RECURSIVE StmtStartOffset(_, _)
StmtStartOffset(sentences, k) ==
    IF k = 1 THEN 0
    ELSE StmtStartOffset(sentences, k - 1) + Len(sentences[k - 1]) + 1

\* line `line` exists in the joined document of a non-empty statement list
InsideDocument(sentences, line) ==
    sentences # <<>> /\ line >= 0 /\ line < NumLines(Join(sentences))

\* the statement (from 1) whose text occupies line `line` of the joined
\* document
OwnerOfLine(sentences, line) ==
    LET p == LineStartOffset(Join(sentences), line)
    IN  CHOOSE k \in 1..Len(sentences) :
            /\ StmtStartOffset(sentences, k) <= p
            /\ p <= StmtStartOffset(sentences, k) + Len(sentences[k])

\* lines of the first k statements: newline characters plus one, each
RECURSIVE CumulativeLines(_, _)
CumulativeLines(sentences, k) ==
    IF k = 0 THEN 0
    ELSE CumulativeLines(sentences, k - 1) + CountNL(sentences[k]) + 1

\* the error-level entries, in arrival order, of the notifications of a
\* queue tagged with the version
RECURSIVE SevereOf(_)
SevereOf(diagnostics) ==
    IF diagnostics = <<>> THEN <<>>
    ELSE (IF Head(diagnostics).severity < 2 THEN <<Head(diagnostics)>>
          ELSE <<>>) \o SevereOf(Tail(diagnostics))

RECURSIVE CurrentSevere(_, _)
CurrentSevere(queue, version) ==
    IF queue = <<>> THEN <<>>
    ELSE (IF Head(queue).version = version
          THEN SevereOf(Head(queue).diagnostics) ELSE <<>>)
         \o CurrentSevere(Tail(queue), version)

\* ----------------------------------------------------------------------
\* C1: if the server answers the didChange of version v with an error-level
\* diagnostic tagged v, the call that sent v does not return normally and
\* does not mark the cache clean, whenever the notification is enqueued.
\* As a state predicate: while the cache is clean for the synchronized
\* version, the queue holds no error-level diagnostic of that version.
C1_SevereDiagnosticAlwaysRaises ==
    (pc = "idle" /\ ~state_dirty) =>
        \A i \in 1..Len(diagQueue) :
            diagQueue[i].version = doc_version => ~HasSevere(diagQueue[i])

\* ----------------------------------------------------------------------
\* C2 as claimed: whenever _checkError processes a severe diagnostic of the
\* current version whose line lies inside statement Sk, doc_sentences
\* afterwards is exactly S1..S(k-1).
C2_RollbackExactForEverySevere ==
    [][CheckStep =>
        LET severe == CurrentSevere(diagQueue, doc_version)
        IN  \A i \in 1..Len(severe) :
                InsideDocument(doc_sentences, severe[i].line) =>
                    doc_sentences' =
                        SubSeq(doc_sentences, 1,
                               OwnerOfLine(doc_sentences, severe[i].line) - 1)
      ]_vars

\* C2 amended: the same, for a severe diagnostic inside the statement Sk of
\* the first severe diagnostic drained, when no severe diagnostic drained by
\* the same _checkError lies in a statement before Sk (in particular when it
\* is the only one): doc_sentences afterwards is exactly S1..S(k-1).
C2_RollbackExactForEarliestFirst ==
    [][CheckStep =>
        LET severe == CurrentSevere(diagQueue, doc_version)
            Owner(i) == OwnerOfLine(doc_sentences, severe[i].line)
        IN  \A i \in 1..Len(severe) :
                ( /\ \A j \in 1..Len(severe) :
                         InsideDocument(doc_sentences, severe[j].line)
                  /\ Owner(i) = Owner(1)
                  /\ \A j \in 1..Len(severe) : Owner(j) >= Owner(i) )
                => doc_sentences' = SubSeq(doc_sentences, 1, Owner(i) - 1)
      ]_vars

\* a rollback that kept the first statement and removed the second
C2_Witness ==
    /\ outcome.checked
    /\ outcome.kind = "raise"
    /\ doc_sentences = << <<"c">> >>
    /\ lastDidChange.text = Join(<< <<"c">>, <<"a", NL, "b">> >>)

\* ----------------------------------------------------------------------
\* C3: a notification whose version is below doc_version when it is drained
\* never makes _checkError raise and never changes doc_sentences, whatever
\* its entries: if every notification with an error-level entry is stale the
\* call returns normally with the sentences unchanged, and in any case the
\* result is the one the queue without its stale notifications gives.
C3_StaleImmunity ==
    [][CheckStep =>
        LET IsOld(n) == n.version < doc_version
            IsFresh(n) == ~IsOld(n)
            fresh == CheckError(SelectSeq(diagQueue, IsFresh), doc_version,
                                doc_sentences)
        IN  /\ (\A i \in 1..Len(diagQueue) :
                    HasSevere(diagQueue[i]) => IsOld(diagQueue[i]))
               => /\ outcome'.kind = "return"
                  /\ doc_sentences' = doc_sentences
                  /\ state_dirty' = FALSE
            /\ doc_sentences' = fresh.sentences
            /\ (outcome'.kind = "raise") = (fresh.exc # "none")
            /\ outcome'.kind = "raise" => outcome'.val = fresh.exc
      ]_vars

\* a call returned normally although a stale error-level notification was
\* in the queue it drained
C3_Witness ==
    /\ outcome.checked
    /\ outcome.kind = "return"
    /\ outcome.skipped > 0
    /\ diagQueue = <<>>

\* ----------------------------------------------------------------------
\* the messages sent and the version are as they were
NothingSent ==
    /\ nSent' = nSent
    /\ lastDidChange' = lastDidChange
    /\ lastGoalsReq' = lastGoalsReq
    /\ serverVersions' = serverVersions

\* a step of the caller (not of the reader thread) that ends as or starts
\* the operation `name`
CallOf(name) ==
    /\ pc = "idle"
    /\ op' = name
    /\ diagQueue' = diagQueue

\* C4: after a getProofContext() that returned normally (which leaves the
\* cache clean), every further getProofContext()/isInProof() call without an
\* intervening mutation sends no didChange and no proof/goals request,
\* leaves doc_version unchanged and returns the cached value, leaving the
\* cache as it is (so the same holds for the call after it).
C4_CacheIdempotence ==
    [][ /\ (CheckStep /\ outcome'.kind = "return") => ~state_dirty'
        /\ \A name \in {"getProofContext", "isInProof"} :
              (CallOf(name) /\ ~state_dirty) =>
                  /\ NothingSent
                  /\ doc_version' = doc_version
                  /\ pc' = "idle"
                  /\ outcome'.kind = "return"
                  /\ outcome'.val =
                        (IF name = "getProofContext" THEN cached_context
                         ELSE IF cached_context = "None" THEN "False"
                         ELSE "True")
                  /\ cached_context' = cached_context
                  /\ state_dirty' = state_dirty
                  /\ doc_sentences' = doc_sentences
      ]_vars

\* isInProof() answered from the cache of an earlier synchronization
C4_Witness ==
    /\ pc = "idle"
    /\ op = "isInProof"
    /\ ~outcome.checked
    /\ outcome = Returned("True")
    /\ ~state_dirty
    /\ nSent = 2

\* ----------------------------------------------------------------------
\* C5: every synchronization raises doc_version by exactly 1 over its value
\* before the call and sends that version, doc_version never decreases, and
\* no didChange carries a version already sent (resetCommandState bumps the
\* version without sending).
C5_VersionMonotonicity ==
    [][ /\ doc_version' >= doc_version
        /\ nSent' # nSent =>
              /\ doc_version' = doc_version + 1
              /\ lastDidChange'.method = "didChange"
              /\ lastDidChange'.version = doc_version'
              /\ lastDidChange'.version \notin serverVersions
              /\ serverVersions' = serverVersions \cup {doc_version'}
        /\ nSent' = nSent => NothingSent
      ]_vars

\* two didChange notifications were sent, with versions 2 and 3
C5_Witness ==
    /\ nSent = 4
    /\ serverVersions = {1, 2, 3}
    /\ lastDidChange.version = 3

\* ----------------------------------------------------------------------
\* C6: state_dirty = False implies that cached_context was assigned by a
\* completed query and that the last didChange carried doc_version and the
\* newline join of the current doc_sentences; the cache is assigned only by
\* a query that completes normally; every step that changes doc_sentences
\* leaves state_dirty = True.
C6_CacheInvariant ==
    /\ [](~state_dirty =>
            /\ cached_context \in {"None", "ProofContext"}
            /\ lastDidChange.method = "didChange"
            /\ lastDidChange.version = doc_version
            /\ lastDidChange.text = Join(doc_sentences))
    /\ [][ /\ doc_sentences' # doc_sentences => state_dirty'
           /\ cached_context' # cached_context =>
                 (CheckStep /\ outcome'.kind = "return")
           /\ (~state_dirty' /\ state_dirty) =>
                 (CheckStep /\ outcome'.kind = "return")
         ]_vars

\* a clean cache over a document of two statements
C6_Witness ==
    /\ ~state_dirty
    /\ Len(doc_sentences) = 2
    /\ cached_context = "ProofContext"

\* ----------------------------------------------------------------------
\* C7: when addStmt()/getProofContext() raises a diagnostic-derived error,
\* doc_sentences is already cut to before the offending statement,
\* state_dirty is still True, cached_context holds its previous value and
\* nothing was sent; whatever is sent later is sent by a call of the caller,
\* under a strictly higher version, with the document as it is then.
C7_ErrorLeavesRolledBackDirtyState ==
    [][ /\ (CheckStep /\ outcome'.kind = "raise"
                      /\ outcome'.val \in CoqExceptions) =>
              LET severe == CurrentSevere(diagQueue, doc_version)
              IN  /\ severe # <<>>
                  /\ InsideDocument(doc_sentences, severe[1].line)
                  /\ Len(doc_sentences') <
                         OwnerOfLine(doc_sentences, severe[1].line)
                  /\ IsPrefix(doc_sentences', doc_sentences)
                  /\ state_dirty /\ state_dirty'
                  /\ cached_context' = cached_context
                  /\ doc_version' = doc_version
                  /\ NothingSent
        /\ nSent' # nSent =>
              /\ pc = "idle" /\ pc' = "call_method"
              /\ lastDidChange'.version > doc_version
              /\ lastDidChange'.version > lastDidChange.version
              /\ lastDidChange'.text = Join(doc_sentences')
      ]_vars

\* the error reached the caller: one statement left of two, the cache dirty
\* and still holding the context of the earlier query
C7_Witness ==
    /\ pc = "idle"
    /\ outcome.checked
    /\ outcome.kind = "raise"
    /\ outcome.val = "CoqExn"
    /\ state_dirty
    /\ cached_context = "ProofContext"
    /\ Len(doc_sentences) = 1
    /\ lastDidChange.text # Join(doc_sentences)

\* ----------------------------------------------------------------------
\* C8: for a non-empty statement list and every line below its total line
\* count (newline characters plus one, per statement), _sentence_at_line
\* returns the index and text of the first statement whose cumulative line
\* count exceeds the line, and that is the statement whose text occupies
\* the line in the newline-joined document.  Stated of the statement list
\* as synchronized, while the server's answer is awaited: that is the
\* document the lines of its diagnostics refer to.
C8_LineOwnership ==
    (pc = "call_method" /\ response = "pending" /\ doc_sentences # <<>>) =>
      LET lines == NumLines(Join(doc_sentences))
      IN
        /\ CumulativeLines(doc_sentences, Len(doc_sentences)) = lines
        /\ \A line \in 0..(lines - 1) :
              LET at == SentenceAtLine(doc_sentences, line)
              IN  /\ at.found
                  /\ at.idx \in 0..(Len(doc_sentences) - 1)
                  /\ at.sentence = doc_sentences[at.idx + 1]
                  /\ CumulativeLines(doc_sentences, at.idx + 1) > line
                  /\ CumulativeLines(doc_sentences, at.idx) <= line
                  /\ at.idx + 1 = OwnerOfLine(doc_sentences, line)

\* ["a\nb", "c"] was synchronized and an error at line 2 rolled back "c"
\* alone: lines 0 and 1 belong to index 0, line 2 to index 1
C8_Witness ==
    /\ outcome.checked
    /\ outcome.kind = "raise"
    /\ lastDidChange.text = Join(<< <<"a", NL, "b">>, <<"c">> >>)
    /\ doc_sentences = << <<"a", NL, "b">> >>
    /\ SentenceAtLine(<< <<"a", NL, "b">>, <<"c">> >>, 0).idx = 0
    /\ SentenceAtLine(<< <<"a", NL, "b">>, <<"c">> >>, 1).idx = 0
    /\ SentenceAtLine(<< <<"a", NL, "b">>, <<"c">> >>, 2).idx = 1

\* ----------------------------------------------------------------------
\* C9: cancelLastStmt() / cancelLastStmt_noupdate() on an empty
\* doc_sentences raises and leaves doc_sentences, doc_version, state_dirty
\* and cached_context as they were.
C9_CancelOnEmptyRaises ==
    [][ (CallOf("cancelLastStmt") /\ doc_sentences = <<>>) =>
            /\ outcome'.kind = "raise"
            /\ outcome'.val = "IndexError"
            /\ doc_sentences' = doc_sentences
            /\ doc_version' = doc_version
            /\ state_dirty' = state_dirty
            /\ cached_context' = cached_context
            /\ NothingSent
      ]_vars

\* the cancel on an empty document raised and the cache is still clean
C9_Witness ==
    /\ op = "cancelLastStmt"
    /\ outcome = Raised("IndexError")
    /\ doc_sentences = <<>>
    /\ ~state_dirty

\* ----------------------------------------------------------------------
\* C10: once close() has begun, the shutdown request, the exit notification
\* and the process termination are each attempted, on every path.
C10_CloseAttemptsEveryStep ==
    pc = "closed" =>
        /\ InSeq("shutdown", closeLog)
        /\ InSeq("exit", closeLog)
        /\ InSeq("terminate", closeLog)

\* ----------------------------------------------------------------------
\* the construction has ended: __init__ returned or raised
ConstructionEnded == pc \in {"idle", "failed"}

\* C11: no wait of the handshake or of openDoc blocks forever; when an
\* expected startup notification never arrives the wait ends in a failure,
\* so the construction always eventually completes or fails.
C11_ConstructionTerminates == <>ConstructionEnded

\* ----------------------------------------------------------------------
\* the queue the next startup check reads
NextCheckQueue ==
    IF StartupChecks[checkIdx + 1].queue = "window/logMessage"
    THEN logMessageQueue ELSE logTraceQueue

\* the step takes a message off a startup queue (the reader only appends)
TakesStartupMessage ==
    \/ Len(logMessageQueue') < Len(logMessageQueue)
    \/ Len(logTraceQueue') < Len(logTraceQueue)

\* C12: the construction sends initialize, verifies the startup
\* notifications, sends initialized, verifies its acknowledgement trace,
\* sends didOpen and verifies the document-checked traces, in that order
\* and one check at a time; initialized is not sent before the seven
\* startup checks passed nor didOpen before the acknowledgement check; a
\* message that fails its check ends the construction for good: nothing
\* more is sent or checked and no statement is ever added.
C12_HandshakeOrdering ==
    /\ [](/\ IsPrefix(sent, HandshakeSends)
          /\ InSeq("initialized", sent) => checkIdx >= VerifiedChecks
          /\ InSeq("didOpen", sent) => checkIdx >= AcknowledgedChecks
          /\ checkIdx > 0 => InSeq("initialize", sent)
          /\ checkIdx > VerifiedChecks => InSeq("initialized", sent)
          /\ checkIdx > AcknowledgedChecks => InSeq("didOpen", sent)
          /\ pc = "idle" => (checkIdx = AllChecks /\ sent = HandshakeSends))
    /\ [][ /\ checkIdx' \in {checkIdx, checkIdx + 1}
           /\ TakesStartupMessage =>
                 IF CheckPasses(StartupChecks[checkIdx + 1],
                                Head(NextCheckQueue))
                 THEN checkIdx' = checkIdx + 1 /\ pc' # "failed"
                 ELSE /\ pc' = "failed"
                      /\ outcome'.kind = "raise"
                      /\ checkIdx' = checkIdx
                      /\ sent' = sent
           /\ checkIdx' # checkIdx => TakesStartupMessage
           /\ pc = "failed" =>
                 /\ pc' = "failed"
                 /\ sent' = sent
                 /\ checkIdx' = checkIdx
                 /\ docVars' = docVars
           /\ op' = "addStmt_noupdate" =>
                 (pc = "idle" /\ checkIdx = AllChecks)
         ]_vars

\* the acknowledgement trace did not match: the construction failed after
\* initialized, and didOpen was not sent
C12_Witness ==
    /\ pc = "failed"
    /\ outcome = Raised("AssertionError")
    /\ checkIdx = VerifiedChecks
    /\ sent = <<"initialize", "initialized">>
    /\ Len(srvTrace) >= 5
    /\ srvTrace[5] # ExpectedTrace[5]

\* ----------------------------------------------------------------------
\* text is the statements in order, one newline between two neighbours and
\* nothing else (character by character)
IsNewlineJoin(text, sentences) ==
    IF sentences = <<>> THEN text = <<>>
    ELSE LET n == Len(sentences)
             Start(k) == StmtStartOffset(sentences, k)
         IN  /\ Len(text) = Start(n) + Len(sentences[n])
             /\ \A k \in 1..n :
                   /\ SubSeq(text, Start(k) + 1,
                             Start(k) + Len(sentences[k])) = sentences[k]
                   /\ k < n => text[Start(k) + Len(sentences[k]) + 1] = NL

\* C13: whenever something is sent, a didChange is sent whose text is the
\* newline join, in order, of doc_sentences as it is at that moment: the
\* whole document, after any sequence of additions, cancellations, resets
\* and error rollbacks.
C13_DidChangeCarriesWholeDocument ==
    [][ nSent' # nSent =>
            /\ lastDidChange' # lastDidChange
            /\ lastDidChange'.method = "didChange"
            /\ lastDidChange'.uri = open_doc
            /\ IsNewlineJoin(lastDidChange'.text, doc_sentences')
      ]_vars

\* the didChange sent right after an error rolled the document back to its
\* first statement
C13_Witness ==
    /\ pc = "call_method"
    /\ outcome.checked
    /\ outcome.kind = "raise"
    /\ outcome.val = "CoqExn"
    /\ Len(doc_sentences) = 1
    /\ lastDidChange.version = 3
    /\ lastDidChange.text = doc_sentences[1]

\* ----------------------------------------------------------------------
\* every error-level entry of the current version lies on a line of the
\* text the server received for it
LinesInsideSentText(queue, version, text) ==
    LET severe == CurrentSevere(queue, version)
    IN  \A i \in 1..Len(severe) :
            severe[i].line >= 0 /\ severe[i].line < NumLines(text)

\* C14: when the diagnostics of the current version refer only to lines of
\* the text sent for it, _checkError never ends in the assertion failure of
\* _sentence_at_line, also when it handles several distinct severe
\* diagnostics in turn; with a severe diagnostic present the call raises a
\* classified CoqException.  Stated for a document that holds a statement
\* (on an empty one a severe entry at line 0 fails the same way).
C14_LineAssertionNeverReached ==
    [][ ( /\ CheckStep
          /\ doc_sentences # <<>>
          /\ lastDidChange.version = doc_version
          /\ LinesInsideSentText(diagQueue, doc_version, lastDidChange.text) )
        => /\ outcome'.val # "AssertionError"
           /\ CurrentSevere(diagQueue, doc_version) # <<>> =>
                 (outcome'.kind = "raise" /\ outcome'.val \in CoqExceptions)
      ]_vars

\* ----------------------------------------------------------------------
\* the class the claim gives a message text: CoqExn when it holds the
\* physical-path phrase anywhere or begins with the unknown-reference
\* phrase
ClaimedClass(msg_text) ==
    IF \/ \E i \in 1..Len(msg_text) : msg_text[i] = "PATH"
       \/ (Len(msg_text) > 0 /\ msg_text[1] = "REF")
    THEN "CoqExn" ELSE "UnrecognizedError"

\* C15: when _checkError finds error-level entries of the current version,
\* the error raised is the classification of the first of them in arrival
\* order; when it finds none (only entries of severity >= 2, or stale ones)
\* it returns normally and doc_sentences stays as it is.  Stated for a
\* document that holds a statement.
C15_FirstWinsClassification ==
    [][ (CheckStep /\ doc_sentences # <<>>) =>
          LET severe == CurrentSevere(diagQueue, doc_version)
          IN  IF severe # <<>>
              THEN /\ outcome'.kind = "raise"
                   /\ outcome'.val = ClaimedClass(severe[1].message)
              ELSE /\ outcome'.kind = "return"
                   /\ doc_sentences' = doc_sentences
      ]_vars

\* ----------------------------------------------------------------------
\* stmt without the newline characters at its end, everything else kept
WithoutTrailingNewlines(stmt) ==
    LET n == CHOOSE k \in 0..Len(stmt) :
                 /\ k > 0 => stmt[k] # NL
                 /\ \A m \in (k + 1)..Len(stmt) : stmt[m] = NL
    IN  SubSeq(stmt, 1, n)

\* C16: addStmt_noupdate(stmt) appends stmt with only its trailing newline
\* characters removed: leading and internal newlines are kept, so the
\* stored statement has the lines of stmt less its trailing newlines.
C16_OnlyTrailingNewlinesStripped ==
    [][ CallOf("addStmt_noupdate") =>
          \E stmt \in RawStmts :
              /\ doc_sentences' =
                     Append(doc_sentences, WithoutTrailingNewlines(stmt))
              /\ CountNL(doc_sentences'[Len(doc_sentences')]) =
                     CountNL(WithoutTrailingNewlines(stmt))
      ]_vars

\* ----------------------------------------------------------------------
\* C17: addStmt_noupdate, cancelLastStmt (and cancelLastStmt_noupdate) and
\* resetCommandState send nothing; the first two leave doc_version and
\* cached_context as they are; resetCommandState empties doc_sentences,
\* raises doc_version by one, sets state_dirty and sends no didOpen; the
\* server is told something only by the didChange of a getProofContext()
\* that finds the state dirty (that of addStmt and isInProof included).
C17_LocalMutationsAreLocal ==
    [][ /\ \A name \in {"addStmt_noupdate", "cancelLastStmt",
                        "resetCommandState"} :
              CallOf(name) => (NothingSent /\ pc' = "idle")
        /\ \A name \in {"addStmt_noupdate", "cancelLastStmt"} :
              CallOf(name) =>
                  /\ doc_version' = doc_version
                  /\ cached_context' = cached_context
        /\ CallOf("resetCommandState") =>
              /\ doc_sentences' = <<>>
              /\ doc_version' = doc_version + 1
              /\ state_dirty'
              /\ cached_context' = cached_context
        /\ ~NothingSent =>
              /\ pc = "idle" /\ pc' = "call_method"
              /\ op' \in {"getProofContext", "isInProof", "addStmt"}
              /\ op' # "addStmt" => state_dirty
              /\ state_dirty'
              /\ lastDidChange'.method = "didChange"
              /\ lastDidChange'.version = doc_version'
      ]_vars

\* resetCommandState after a synchronized statement: the document is empty
\* under version 3 and the server still has the text of version 2
C17_Witness ==
    /\ pc = "idle"
    /\ op = "resetCommandState"
    /\ doc_sentences = <<>>
    /\ doc_version = 3
    /\ state_dirty
    /\ nSent = 2
    /\ lastDidChange.version = 2
    /\ lastDidChange.text # <<>>
    /\ serverVersions = {1, 2}

\* ----------------------------------------------------------------------
\* the positions of the newline characters of a text
NewlinesOf(text) == {p \in 1..Len(text) : text[p] = NL}

\* the end of a text: as many lines down as it has newline characters, as
\* many characters in as follow the last of them
EndOfText(text) ==
    LET last == IF NewlinesOf(text) = {} THEN 0
                ELSE CHOOSE p \in NewlinesOf(text) :
                         \A q \in NewlinesOf(text) : q <= p
    IN  [line |-> Cardinality(NewlinesOf(text)),
         character |-> Len(text) - last]

\* C18: a proof/goals request is sent only together with, and after, the
\* didChange of the same getProofContext() call; it carries the URI of that
\* didChange and the position of the end of its text: line = lines of the
\* text - 1, character = length of its last line, (0, 0) for an empty text.
C18_GoalsPositionIsEndOfDocument ==
    [][ /\ lastGoalsReq' # lastGoalsReq => nSent' = nSent + 2
        /\ nSent' # nSent =>
              /\ nSent' = nSent + 2
              /\ lastDidChange'.version = doc_version'
              /\ lastGoalsReq'.uri = lastDidChange'.uri
              /\ lastGoalsReq'.uri = open_doc
              /\ lastGoalsReq'.line = EndOfText(lastDidChange'.text).line
              /\ lastGoalsReq'.character =
                     EndOfText(lastDidChange'.text).character
              /\ lastDidChange'.text = <<>> =>
                     (lastGoalsReq'.line = 0 /\ lastGoalsReq'.character = 0)
      ]_vars

\* "c" and "a\nb" were sent as "c\na\nb": the request asks at line 2,
\* character 1
C18_Witness ==
    /\ pc = "call_method"
    /\ doc_sentences = << <<"c">>, <<"a", NL, "b">> >>
    /\ lastDidChange.text = <<"c", NL, "a", NL, "b">>
    /\ lastGoalsReq = [uri |-> "local1.v", line |-> 2, character |-> 1]

\* ----------------------------------------------------------------------
\* C19: with a server that tags its diagnostics with versions it received
\* in didOpen/didChange, every notification in the queue has a version <=
\* doc_version in every reachable state, however the reader's puts
\* interleave with the caller's calls; so whenever _checkError runs, every
\* notification it does not skip as stale and that holds an error-level
\* entry has version = doc_version: the assertion on the version holds.
C19_VersionAssertionHolds ==
    /\ [](/\ \A v \in serverVersions : v <= doc_version
          /\ \A i \in 1..Len(diagQueue) : diagQueue[i].version <= doc_version)
    /\ [][CheckStep =>
            \A i \in 1..Len(diagQueue) :
                (HasSevere(diagQueue[i])
                     /\ ~(diagQueue[i].version < doc_version))
                => diagQueue[i].version = doc_version
         ]_vars

\* resetCommandState ran while an error-level notification of the version
\* before was waiting in the queue
C19_Witness ==
    /\ op = "resetCommandState"
    /\ diagQueue # <<>>
    /\ HasSevere(diagQueue[1])
    /\ diagQueue[1].version = doc_version - 1
    /\ diagQueue[1].version \in serverVersions

\* ----------------------------------------------------------------------
\* so far the server has emitted its expected notifications, each kind in
\* order
ServerAsExpected ==
    /\ IsPrefix(srvLog, ExpectedLog)
    /\ IsPrefix(srvTrace, ExpectedTrace)

\* the window/logMessage and the $/logTrace checks among the first n
LogChecksAmong(n) == IF n < 3 THEN n ELSE 3
TraceChecksAmong(n) == IF n < 3 THEN 0 ELSE n - 3

\* what is left of seq after its first n elements
Rest(seq, n) == SubSeq(seq, n + 1, Len(seq))

\* C20: with a server that emits the expected window/logMessage
\* notifications in order and the expected $/logTrace notifications in
\* order, no check of verify_init_messages fails, however the two kinds
\* and publishDiagnostics notifications interleave: each queue holds the
\* notifications of its kind not yet checked, in the order emitted, and
\* once the seven expected ones are out the pending check finds its message
\* and passes.
C20_VerificationIgnoresCrossKindOrder ==
    /\ (ServerAsExpected /\ pc = "failed" /\ checkIdx < VerifiedChecks)
           => outcome # Raised("AssertionError")
    /\ (ServerAsExpected /\ pc # "failed") =>
           /\ logMessageQueue = Rest(srvLog, LogChecksAmong(checkIdx))
           /\ logTraceQueue = Rest(srvTrace, TraceChecksAmong(checkIdx))
    /\ ( /\ ServerAsExpected
         /\ pc = "verify_init_messages"
         /\ Len(srvLog) = 3
         /\ Len(srvTrace) >= 4 )
       => /\ NextCheckQueue # <<>>
          /\ CheckPasses(StartupChecks[checkIdx + 1], Head(NextCheckQueue))

\* verify_init_messages returned: its seven checks passed on the expected
\* notifications, with a publishDiagnostics notification received meanwhile
C20_Witness ==
    /\ pc = "initialized"
    /\ checkIdx = VerifiedChecks
    /\ ServerAsExpected
    /\ srvLog = ExpectedLog
    /\ Len(srvTrace) = 4
    /\ diagQueue # <<>>
    /\ logMessageQueue = <<>>
    /\ logTraceQueue = <<>>

====
